---- MODULE Spec2Model ----
(***************************************************************************)
(* Time-series alignment and aggregation scripts of the repository:        *)
(*   data_processing/combining/average_exchanges.py                        *)
(*   data_collection/get_exchange_data_simple.py                           *)
(*   data_collection/check_and_fix_missing_values.py                       *)
(*   data_collection/fix_closeusd_values.py                                *)
(*   data_collection/create_combined_dataset.py                            *)
(*   data_processing/combining/combine_volatility_currency.py              *)
(*                                                                         *)
(* A data frame is a record [cols, rows]: cols is the sequence of value    *)
(* column names in column order, rows the sequence of rows in row order;   *)
(* a row is [Date, c] with c a function from the column names to cells.    *)
(* A numeric cell is a rational [n, d] in lowest terms; d = 0 is NaN.      *)
(* The text column Currency is the row field Currency ("" when the frame   *)
(* has no such column).  A timestamp is a positive integer, TicksPerDay    *)
(* consecutive timestamps share one calendar day; NaT (0) is the           *)
(* unparseable date.  A directory is a function from file names to frames. *)
(***************************************************************************)
EXTENDS Integers, Sequences, FiniteSets, TLC

(* ------------------------------ bounds --------------------------------- *)
MaxRows == 2          \* rows of one input file
MaxDate == 3          \* timestamps 1..MaxDate in the exchange files
Vals == {10, 20}      \* observed numbers in the input files
EXCH == {"A", "B"}    \* files of datasets/processed_exchanges

(* ------------------------------ numbers -------------------------------- *)
NaN == [n |-> 0, d |-> 0]
NaT == 0

isna(v) == v.d = 0

RECURSIVE GCD(_, _)
GCD(a, b) == IF b = 0 THEN a ELSE GCD(b, a % b)

Abs(k) == IF k < 0 THEN 0 - k ELSE k
\* n / d in lowest terms, for d > 0
Rat(n, d) ==
    LET g == GCD(Abs(n), d)
    IN [n |-> IF n < 0 THEN 0 - (Abs(n) \div g) ELSE n \div g, d |-> d \div g]
Num(k) == [n |-> k, d |-> 1]
RAdd(a, b) == Rat(a.n * b.d + b.n * a.d, a.d * b.d)
RMul(a, b) == Rat(a.n * b.n, a.d * b.d)
RDivInt(a, k) == Rat(a.n, a.d * k)
RLess(a, b) == a.n * b.d < b.n * a.d
RSub(a, b) == Rat(a.n * b.d - b.n * a.d, a.d * b.d)
\* a / b for b > 0
RDiv(a, b) == Rat(a.n * b.d, a.d * b.n)
\* a + (b - a) * k / m
RLerp(a, b, k, m) == Rat(a.n * b.d * (m - k) + b.n * a.d * k, a.d * b.d * m)

(* --------------------------- sequence helpers -------------------------- *)
Range(s) == {s[i] : i \in 1..Len(s)}
SeqOf(S) == {s \in [1..Cardinality(S) -> S] : Range(s) = S}   \* the orders of S
Indices(s) == 1..Len(s)

RECURSIVE SelectIdx(_, _, _)
\* the subsequence of s at the positions i with Keep[i]
SelectIdx(s, Keep, i) ==
    IF i > Len(s) THEN <<>>
    ELSE (IF Keep[i] THEN <<s[i]>> ELSE <<>>) \o SelectIdx(s, Keep, i + 1)

RECURSIVE SortedSeq(_)
\* the ascending sequence of a finite set of integers
SortedSeq(S) ==
    IF S = {} THEN <<>>
    ELSE LET m == CHOOSE x \in S : \A y \in S : x <= y
         IN <<m>> \o SortedSeq(S \ {m})

Dates(df) == {df.rows[i].Date : i \in Indices(df.rows)}
ColSet(df) == Range(df.cols)

(* ------------------ average_exchanges.py: load_exchange_data ----------- *)
RECURSIVE SumNotNa(_, _, _)
\* sum of the non-missing cells of column col over the row positions in I
SumNotNa(rows, col, I) ==
    IF I = {} THEN Num(0)
    ELSE LET i == CHOOSE x \in I : TRUE
             rest == SumNotNa(rows, col, I \ {i})
         IN IF isna(rows[i].c[col]) THEN rest ELSE RAdd(rest, rows[i].c[col])

CountNotNa(rows, col, I) == Cardinality({i \in I : ~isna(rows[i].c[col])})

\* Series.mean(): mean of the non-missing values, NaN when there is none
MeanNotNa(rows, col, I) ==
    IF CountNotNa(rows, col, I) = 0 THEN NaN
    ELSE RDivInt(SumNotNa(rows, col, I), CountNotNa(rows, col, I))

\* df.groupby('Date', as_index=False).mean(numeric_only=True): one row per
\* date that is not NaT, ascending by date, each cell the group's mean
GroupByDateMean(df) ==
    LET keys == SortedSeq(Dates(df) \ {NaT})
    IN [cols |-> df.cols,
        rows |-> [k \in Indices(keys) |->
                    [Date |-> keys[k], Currency |-> "",
                     c |-> [col \in ColSet(df) |->
                              MeanNotNa(df.rows, col,
                                  {i \in Indices(df.rows) : df.rows[i].Date = keys[k]})]]]]

HasDuplicateDates(df) ==
    \E i, j \in Indices(df.rows) : i < j /\ df.rows[i].Date = df.rows[j].Date

DropNaT(df) ==
    [cols |-> df.cols,
     rows |-> SelectIdx(df.rows, [i \in Indices(df.rows) |-> df.rows[i].Date # NaT], 1)]

HasCurrency(df) == \E i \in Indices(df.rows) : df.rows[i].Currency # ""

\* pd.to_numeric(errors='coerce') over every column but Date: a text column
\* becomes a numeric column of missing cells
ToNumericAll(df) ==
    IF HasCurrency(df)
    THEN [cols |-> Append(df.cols, "Currency"),
          rows |-> [i \in Indices(df.rows) |->
                      [Date |-> df.rows[i].Date, Currency |-> "",
                       c |-> [col \in ColSet(df) \cup {"Currency"} |->
                                IF col = "Currency" THEN NaN ELSE df.rows[i].c[col]]]]]
    ELSE df

\* a Date cell whose text is no date
BadDate == -1

\* pd.to_datetime(df['Date'], errors='coerce') (line 33): text that is no
\* date becomes NaT
CoerceDates(df) ==
    [cols |-> df.cols,
     rows |-> [i \in Indices(df.rows) |->
                 [Date |-> IF df.rows[i].Date = BadDate THEN NaT ELSE df.rows[i].Date,
                  Currency |-> df.rows[i].Currency,
                  c |-> df.rows[i].c]]]

\* lines 36-52 on the frame with its dates parsed
LoadParsed(df) ==
    ToNumericAll(DropNaT(IF HasDuplicateDates(df) THEN GroupByDateMean(df) ELSE df))

\* the frame load_exchange_data keeps for one file (lines 25-52)
LoadOne(df) == LoadParsed(CoerceDates(df))

\* line 55: the file is kept when it has rows and a value column
Usable(df) == Len(df.rows) > 0 /\ Len(df.cols) > 0

RECURSIVE load_exchange_data(_, _)
\* the dict exchange_data as a sequence of [name, df] in listing order
load_exchange_data(dir, listing) ==
    IF listing = <<>> THEN <<>>
    ELSE LET df == LoadOne(dir[Head(listing)])
         IN (IF Usable(df) THEN <<[name |-> Head(listing), df |-> df]>> ELSE <<>>)
            \o load_exchange_data(dir, Tail(listing))

(* ------------------ average_exchanges.py: average_exchanges ------------ *)
RECURSIVE UnionDates(_)
UnionDates(data) ==
    IF data = <<>> THEN {} ELSE Dates(Head(data).df) \cup UnionDates(Tail(data))

RECURSIVE UnionCols(_)
UnionCols(data) ==
    IF data = <<>> THEN {} ELSE ColSet(Head(data).df) \cup UnionCols(Tail(data))

\* lines 71-77: all_dates, sorted
all_dates(data) == SortedSeq(UnionDates(data))
\* lines 86-90: all_columns, a set
all_columns(data) == UnionCols(data)

\* as Contrib, without the pd.isna test of line 115
Contrib_CountsMissing(df, date, col) ==
    IF col \in ColSet(df)
    THEN {i \in Indices(df.rows) : df.rows[i].Date = date}
    ELSE {}

\* the row positions of df that add to (date, col) in the loop of lines 109-121
Contrib(df, date, col) ==
    IF col \in ColSet(df)
    THEN {i \in Indices(df.rows) : df.rows[i].Date = date /\ ~isna(df.rows[i].c[col])}
    ELSE {}

RECURSIVE column_sum(_, _, _)
column_sum(data, date, col) ==
    IF data = <<>> THEN Num(0)
    ELSE RAdd(column_sum(Tail(data), date, col),
              SumNotNa(Head(data).df.rows, col, Contrib(Head(data).df, date, col)))

RECURSIVE column_count(_, _, _)
column_count(data, date, col) ==
    IF data = <<>> THEN 0
    ELSE column_count(Tail(data), date, col)
         + Cardinality(Contrib(Head(data).df, date, col))

\* as AverageCell, with 0 as the default of a cell nobody observed
AverageCell_ZeroDefault(data, date, col) ==
    IF column_count(data, date, col) > 0
    THEN RDivInt(column_sum(data, date, col), column_count(data, date, col))
    ELSE Num(0)

\* lines 123-129
AverageCell(data, date, col) ==
    IF column_count(data, date, col) > 0
    THEN RDivInt(column_sum(data, date, col), column_count(data, date, col))
    ELSE NaN

\* colOrder is the iteration order of the set all_columns (lines 93-96)
average_exchanges(data, colOrder) ==
    LET ds == all_dates(data)
    IN [cols |-> colOrder,
        rows |-> [i \in Indices(ds) |->
                    [Date |-> ds[i], Currency |-> "",
                     c |-> [col \in all_columns(data) |-> AverageCell(data, ds[i], col)]]]]

(* ----------------------- pandas fill primitives ------------------------ *)
ColVals(df, col) == [i \in Indices(df.rows) |-> df.rows[i].c[col]]

SetCol(df, col, vs) ==
    [cols |-> IF col \in ColSet(df) THEN df.cols ELSE Append(df.cols, col),
     rows |-> [i \in Indices(df.rows) |->
                 [Date |-> df.rows[i].Date, Currency |-> df.rows[i].Currency,
                  c |-> [k \in ColSet(df) \cup {col} |->
                           IF k = col THEN vs[i] ELSE df.rows[i].c[k]]]]]

HasNa(vs) == \E i \in DOMAIN vs : isna(vs[i])

PrevValid(vs, i) == {j \in DOMAIN vs : j < i /\ ~isna(vs[j])}
NextValid(vs, i) == {j \in DOMAIN vs : j > i /\ ~isna(vs[j])}
SetMax(S) == CHOOSE x \in S : \A y \in S : y <= x
SetMin(S) == CHOOSE x \in S : \A y \in S : x <= y

\* Series.ffill(): a missing cell takes the last valid value above it
ffill(vs) ==
    [i \in DOMAIN vs |->
        IF isna(vs[i]) /\ PrevValid(vs, i) # {} THEN vs[SetMax(PrevValid(vs, i))]
        ELSE vs[i]]

\* Series.bfill(): a missing cell takes the next valid value below it
bfill(vs) ==
    [i \in DOMAIN vs |->
        IF isna(vs[i]) /\ NextValid(vs, i) # {} THEN vs[SetMin(NextValid(vs, i))]
        ELSE vs[i]]

\* Series.interpolate(method='linear'): the rows are taken as equally
\* spaced whatever the index holds; cells after the last valid value take
\* that value, cells before the first valid value stay missing
interpolate(vs) ==
    [i \in DOMAIN vs |->
        IF ~isna(vs[i]) \/ PrevValid(vs, i) = {} THEN vs[i]
        ELSE LET p == SetMax(PrevValid(vs, i))
             IN IF NextValid(vs, i) = {} THEN vs[p]
                ELSE LET q == SetMin(NextValid(vs, i))
                     IN RLerp(vs[p], vs[q], i - p, q - p)]

(* --------------------------- timestamps -------------------------------- *)
TicksPerDay == 2
\* pd.to_datetime(d.strftime('%Y-%m-%d')): midnight of the day of t
DayOf(t) == IF t = NaT THEN NaT ELSE ((t - 1) \div TicksPerDay) * TicksPerDay + 1

RECURSIVE InsertByDate(_, _)
InsertByDate(sorted, r) ==
    IF sorted = <<>> THEN <<r>>
    ELSE IF (r.Date # NaT /\ Head(sorted).Date = NaT)
             \/ (r.Date # NaT /\ r.Date < Head(sorted).Date)
         THEN <<r>> \o sorted
         ELSE <<Head(sorted)>> \o InsertByDate(Tail(sorted), r)

RECURSIVE SortRowsByDate(_)
\* sort_values('Date') / sort_index(): ascending, NaT last, ties in row order
SortRowsByDate(rows) ==
    IF rows = <<>> THEN <<>>
    ELSE InsertByDate(SortRowsByDate(SubSeq(rows, 1, Len(rows) - 1)), rows[Len(rows)])

(* ------------- get_exchange_data_simple.py: get_exchange_data ---------- *)
\* lines 136-141: the Date column formatted as a day
WithDayDates(df) ==
    [cols |-> df.cols,
     rows |-> [i \in Indices(df.rows) |->
                 [Date |-> DayOf(df.rows[i].Date), Currency |-> df.rows[i].Currency,
                  c |-> df.rows[i].c]]]

WithCurrency(df, currency) ==
    [cols |-> df.cols,
     rows |-> [i \in Indices(df.rows) |->
                 [Date |-> df.rows[i].Date, Currency |-> currency, c |-> df.rows[i].c]]]

\* data.drop_duplicates(subset=['Date'], keep='first') (lines 143-146)
DropDuplicatesKeepFirst(df) ==
    [cols |-> df.cols,
     rows |-> SelectIdx(df.rows,
                 [i \in Indices(df.rows) |->
                     ~\E j \in Indices(df.rows) : j < i /\ df.rows[j].Date = df.rows[i].Date],
                 1)]

RECURSIVE FillColumns(_, _, _)
\* lines 148-154: data[col] = data[col].ffill().bfill() for each numeric column
FillColumns(df, cols, k) ==
    IF k > Len(cols) THEN df
    ELSE FillColumns(SetCol(df, cols[k], bfill(ffill(ColVals(df, cols[k])))), cols, k + 1)

\* lines 136-158 for a download that is not empty: the frame returned
get_exchange_data(raw, currency) ==
    LET dedup == DropDuplicatesKeepFirst(WithDayDates(raw))
    IN WithCurrency(FillColumns(dedup, dedup.cols, 1), currency)

\* the same steps without the fill of lines 148-154 (provenance only)
get_exchange_data_nofill(raw, currency) ==
    WithCurrency(DropDuplicatesKeepFirst(WithDayDates(raw)), currency)

(* -------- currency conversion (get_exchange_data_simple.py 214-306, ----- *)
(* -------- fix_closeusd_values.py 92-207) -------------------------------- *)
\* the entries of conversion_rates the model's currencies use
KnownRate(currency) ==
    IF currency = "EUR" THEN Rat(108, 100)
    ELSE IF currency = "JPY" THEN Rat(67, 10000)
    ELSE NaN

\* the fallback ladder on the average close of an unknown currency
estimated_rate(avg_close) ==
    IF isna(avg_close) THEN Num(10)
    ELSE IF RLess(Num(10000), avg_close) THEN Rat(1, 1000)
    ELSE IF RLess(Num(1000), avg_close) THEN Rat(1, 100)
    ELSE IF RLess(Num(100), avg_close) THEN Rat(1, 10)
    ELSE IF RLess(Num(10), avg_close) THEN Rat(1, 2)
    ELSE IF RLess(Num(1), avg_close) THEN Num(1)
    ELSE Num(10)

RateOf(currency, avg_close) ==
    IF currency = "USD" THEN Num(1)
    ELSE IF ~isna(KnownRate(currency)) THEN KnownRate(currency)
    ELSE estimated_rate(avg_close)

\* Close * rate for every row, the rate chosen per currency of the rows
ConvertedClose(df) ==
    [i \in Indices(df.rows) |->
        LET same == {j \in Indices(df.rows) : df.rows[j].Currency = df.rows[i].Currency}
            close == df.rows[i].c["Close"]
        IN IF isna(close) THEN NaN
           ELSE RMul(close, RateOf(df.rows[i].Currency, MeanNotNa(df.rows, "Close", same)))]

\* interpolate, then ffill().bfill(), then the Close value as a last resort
FillCloseUSD(df) ==
    LET x == bfill(ffill(interpolate(ColVals(df, "CloseUSD"))))
    IN SetCol(df, "CloseUSD",
              [i \in Indices(df.rows) |-> IF isna(x[i]) THEN df.rows[i].c["Close"] ELSE x[i]])

RECURSIVE FillOtherColumns(_, _, _)
\* fix_closeusd_values.py 188-198
FillOtherColumns(df, cols, k) ==
    IF k > Len(cols) THEN df
    ELSE IF cols[k] # "CloseUSD" /\ HasNa(ColVals(df, cols[k]))
         THEN FillOtherColumns(
                  SetCol(df, cols[k], bfill(ffill(interpolate(ColVals(df, cols[k]))))),
                  cols, k + 1)
         ELSE FillOtherColumns(df, cols, k + 1)

\* Series.pct_change(): the change relative to the row above, missing cells
\* padded first; the first row has no row above it
pct_change(vs) ==
    LET f == ffill(vs)
    IN [i \in DOMAIN vs |->
          IF i = 1 \/ isna(f[i]) \/ isna(f[i - 1]) \/ f[i - 1].n <= 0 THEN NaN
          ELSE RSub(RDiv(f[i], f[i - 1]), Num(1))]

\* process_exchange_data (lines 189-315): sort by date, add Daily_Return
\* and CloseUSD, fill CloseUSD.  The moving-average and volatility columns
\* (windows of 5 rows and more) are further derived columns of the same kind.
process_exchange_data(data) ==
    LET sorted == [cols |-> data.cols, rows |-> SortRowsByDate(data.rows)]
        ret == SetCol(sorted, "Daily_Return", pct_change(ColVals(sorted, "Close")))
        rated == WithCurrency(ret, ret.rows[1].Currency)
    IN FillCloseUSD(SetCol(ret, "CloseUSD", ConvertedClose(rated)))

\* the same steps without any fill (provenance only)
process_exchange_data_nofill(data) ==
    LET sorted == [cols |-> data.cols, rows |-> SortRowsByDate(data.rows)]
        close == ColVals(sorted, "Close")
        ret == SetCol(sorted, "Daily_Return",
                      [i \in Indices(sorted.rows) |->
                          IF i = 1 \/ isna(close[i]) \/ isna(close[i - 1]) THEN NaN
                          ELSE pct_change(close)[i]])
    IN SetCol(ret, "CloseUSD", ConvertedClose(WithCurrency(ret, ret.rows[1].Currency)))

\* apply_currency_conversion(data, index_symbol, index_currency_map):
\* mapped is the currency index_currency_map has for index_symbol ("" when
\* there is no map or no entry), dateIndexed whether data is indexed by Date
apply_currency_conversion(data, mapped, dateIndexed) ==
    IF "Close" \notin ColSet(data) THEN data
    ELSE LET cur == IF mapped # "" THEN WithCurrency(data, mapped)
                    ELSE IF HasCurrency(data) THEN data
                    ELSE WithCurrency(data, "USD")
             conv == SetCol(cur, "CloseUSD", ConvertedClose(cur))
             fixed == FillOtherColumns(FillCloseUSD(conv), conv.cols, 1)
         IN [cols |-> fixed.cols,
             rows |-> IF dateIndexed THEN SortRowsByDate(fixed.rows) ELSE fixed.rows]

(* ------------------- check_and_fix_missing_values.py ------------------- *)
\* REQUIRED_COLS['exchange'] restricted to the columns of the model
REQUIRED_COLS == <<"Close", "CloseUSD">>

RECURSIVE AddMissingCols(_, _, _)
\* lines 50-57: a required column that is absent is added, all missing
AddMissingCols(df, req, k) ==
    IF k > Len(req) THEN df
    ELSE IF req[k] \in ColSet(df) THEN AddMissingCols(df, req, k + 1)
         ELSE AddMissingCols(SetCol(df, req[k], [i \in Indices(df.rows) |-> NaN]),
                             req, k + 1)

\* lines 138-143: interpolate, then ffill().fillna(bfill())
InterpolateAndFill(vs) ==
    LET x == interpolate(vs)
    IN [i \in DOMAIN vs |-> IF isna(ffill(x)[i]) THEN bfill(x)[i] ELSE ffill(x)[i]]

FixOneCol(df, col) ==
    IF ~HasNa(ColVals(df, col)) THEN df
    ELSE IF col = "CloseUSD" /\ "Close" \in ColSet(df) /\ HasCurrency(df)
         THEN apply_currency_conversion(df, "", TRUE)
         ELSE SetCol(df, col, InterpolateAndFill(ColVals(df, col)))

RECURSIVE FixCols(_, _, _)
FixCols(df, cols, k) ==
    IF k > Len(cols) THEN df ELSE FixCols(FixOneCol(df, cols[k]), cols, k + 1)

\* lines 93-152, the loop over df.columns in column order
fix_missing_values(df) == FixCols(df, df.cols, 1)

AnyMissing(df) ==
    \/ NaT \in Dates(df)
    \/ \E i \in Indices(df.rows), col \in ColSet(df) : isna(df.rows[i].c[col])

\* load_and_check_csv on a file of processed_exchanges: the content the file
\* has when the function returns
load_and_check_csv(df) ==
    LET checked == AddMissingCols(df, REQUIRED_COLS, 1)
    IN IF AnyMissing(checked) THEN fix_missing_values(checked) ELSE df

(* --------------------- create_combined_dataset.py ---------------------- *)
\* standard_columns (line 68) restricted to the columns of the model
standard_columns == <<"Close", "Adj Close", "CloseUSD">>

DateSeq(df) == [i \in Indices(df.rows) |-> df.rows[i].Date]
HasDuplicates(s) == \E i, j \in DOMAIN s : i < j /\ s[i] = s[j]

\* lines 69-82: the cell of column 'AVG col' in row i of exchange_df
AvgColumnCell(df, col, i) ==
    IF col \in ColSet(df) THEN df.rows[i].c[col]
    ELSE IF col = "Adj Close" /\ "Close" \in ColSet(df) THEN df.rows[i].c["Close"]
    ELSE NaN

\* lines 55-88: exchange_df, indexed by the day of each Date
ExchangeBase(df) ==
    [cols |-> [k \in Indices(standard_columns) |-> "AVG " \o standard_columns[k]],
     rows |-> [i \in Indices(df.rows) |->
                 [Date |-> DayOf(df.rows[i].Date), Currency |-> "",
                  c |-> [name \in {"AVG " \o standard_columns[k] :
                                      k \in Indices(standard_columns)} |->
                           AvgColumnCell(df,
                               standard_columns[CHOOSE k \in Indices(standard_columns) :
                                                   "AVG " \o standard_columns[k] = name],
                               i)]]]]

\* line 120 on the file names of the model
feature_type(file) ==
    CASE file = "onchain_metrics.csv" -> "onchain"
      [] file = "currency_metrics.csv" -> "currency"
      [] file = "onchain_fees.csv" -> "onchain"
      [] file = "volatility_currency_combined_fixed.csv" -> "volatility"
      [] OTHER -> file

\* lines 155-162
ColumnName(file, col) ==
    IF file = "currency_metrics.csv" /\ col \in {"BTC/USD", "Gold/BTC Ratio"} THEN col
    ELSE feature_type(file) \o " " \o col

\* lines 148-153: the columns of the file that are added
FeatureCols(df) == SelectIdx(df.cols, [k \in Indices(df.cols) |-> df.cols[k] # "Miner Revenue (USD)"], 1)

\* lines 140-166: feature_df, indexed by the day of each Date
FeatureFrame(file, df) ==
    LET kept == FeatureCols(df)
    IN [cols |-> [k \in Indices(kept) |-> ColumnName(file, kept[k])],
        rows |-> [i \in Indices(df.rows) |->
                    [Date |-> DayOf(df.rows[i].Date), Currency |-> "",
                     c |-> [name \in {ColumnName(file, kept[k]) : k \in Indices(kept)} |->
                              df.rows[i].c[CHOOSE col \in Range(kept) :
                                              ColumnName(file, col) = name]]]]]

\* the cell of frame df in column name at the row indexed by date, missing
\* when df has no such row
CellAt(df, date, name) ==
    IF date \in Dates(df)
    THEN df.rows[CHOOSE i \in Indices(df.rows) : df.rows[i].Date = date].c[name]
    ELSE NaN

\* pd.concat([left, right], axis=1, join='outer') raises when the two
\* indexes differ and one of them repeats a label (no reindex on duplicates)
ConcatRaises(left, right) ==
    /\ DateSeq(left) # DateSeq(right)
    /\ HasDuplicates(DateSeq(left)) \/ HasDuplicates(DateSeq(right))

\* pd.concat([left, right], axis=1, join='outer'): equal indexes are pasted
\* side by side; otherwise the index is left's labels followed by the
\* labels only right has, each frame reindexed on it
Concat(left, right) ==
    IF DateSeq(left) = DateSeq(right)
    THEN [cols |-> left.cols \o right.cols,
          rows |-> [i \in Indices(left.rows) |->
                      [Date |-> left.rows[i].Date, Currency |-> "",
                       c |-> [name \in ColSet(left) \cup ColSet(right) |->
                                IF name \in ColSet(left) THEN left.rows[i].c[name]
                                ELSE right.rows[i].c[name]]]]]
    ELSE LET extra == SelectIdx(DateSeq(right),
                          [i \in Indices(right.rows) |->
                              right.rows[i].Date \notin Dates(left)], 1)
             index == DateSeq(left) \o extra
         IN [cols |-> left.cols \o right.cols,
             rows |-> [i \in Indices(index) |->
                         [Date |-> index[i], Currency |-> "",
                          c |-> [name \in ColSet(left) \cup ColSet(right) |->
                                   IF name \in ColSet(left) THEN CellAt(left, index[i], name)
                                   ELSE CellAt(right, index[i], name)]]]]

\* pd.to_datetime(df['Date']) (lines 59, 141) raises on text that is no date
ReadRaises(df) == \E i \in Indices(df.rows) : df.rows[i].Date = BadDate

\* lines 124-131: the number of lines read_csv is told to skip; a frame
\* with a field comments is a file that starts with so many lines
\* beginning with '#'
skiprows(df) == IF "comments" \in DOMAIN df /\ df.comments > 0 THEN 1 ELSE 0

\* line 135: read_csv takes the first line left as the header; when that is
\* a comment line the frame read has no Date column (line 138, the file
\* is skipped at line 175) or the parser raises (line 176)
HeaderIsComment(df) == "comments" \in DOMAIN df /\ df.comments > skiprows(df)

RECURSIVE MergeFeatures(_, _, _)
\* the loop of lines 108-180 over the files in glob order: a file whose
\* read or concat raises is reported and skipped
MergeFeatures(final, dir, order) ==
    IF order = <<>> THEN final
    ELSE IF ReadRaises(dir[Head(order)]) \/ HeaderIsComment(dir[Head(order)])
         THEN MergeFeatures(final, dir, Tail(order))
    ELSE LET feature == FeatureFrame(Head(order), dir[Head(order)])
         IN MergeFeatures(IF ConcatRaises(final, feature) THEN final
                          ELSE Concat(final, feature),
                          dir, Tail(order))

\* lines 182-189: final_df with Date a column again, sorted by Date
MergedTable(avg, dir, order) ==
    LET final == MergeFeatures(ExchangeBase(avg), dir, order)
    IN [cols |-> final.cols, rows |-> SortRowsByDate(final.rows)]

RECURSIVE MapColumns(_, _, _, _)
\* a column-wise fill applied to every column: kind "ffill" or "bfill"
MapColumns(df, cols, k, kind) ==
    IF k > Len(cols) THEN df
    ELSE MapColumns(SetCol(df, cols[k],
                           IF kind = "ffill" THEN ffill(ColVals(df, cols[k]))
                           ELSE bfill(ColVals(df, cols[k]))),
                    cols, k + 1, kind)

\* as CombinedFill, without the bfill of line 202
CombinedFill_NoBfill(df) == MapColumns(df, df.cols, 1, "ffill")

\* lines 198-202: final_df.ffill() then final_df.bfill()
CombinedFill(df) == MapColumns(MapColumns(df, df.cols, 1, "ffill"), df.cols, 1, "bfill")

\* 'Currency' in col (line 222) on the column names of the model
ContainsCurrency(col) == col \in {"volatility Currency_BTC/USD"}

\* lines 220-225
DropCurrencyColumns(df) ==
    LET kept == SelectIdx(df.cols, [k \in Indices(df.cols) |-> ~ContainsCurrency(df.cols[k])], 1)
    IN [cols |-> kept,
        rows |-> [i \in Indices(df.rows) |->
                    [Date |-> df.rows[i].Date, Currency |-> "",
                     c |-> [name \in Range(kept) |-> df.rows[i].c[name]]]]]

\* the table create_combined_dataset writes (lines 198-236)
WrittenTable(mergedTable) == DropCurrencyColumns(CombinedFill(mergedTable))

(* ------------------------------- state --------------------------------- *)
VARIABLES
    exFiles,     \* datasets/processed_exchanges: file name -> frame
    download,    \* the frame yf.download returned, being processed: <<>> or <<[e, raw, currency]>>
    filled,      \* provenance: the cells [file, row, col] written by a fill
    averaged,    \* averaged_exchanges.csv: <<>> when absent, else <<frame>>
    features,    \* datasets/additional_features: file name -> frame
    merged,      \* final_df of create_combined_dataset before the fill step
    combined,    \* the combined table written: <<>> when absent, else <<frame>>
    runs,        \* the tables written by the successive pipeline runs
    latest,      \* combined_dataset_latest.csv: <<>> when absent, else <<frame>>
    temp,        \* combined_dataset_temp.csv
    backup,      \* combined_dataset_backup.csv
    prior,       \* what combined_dataset_latest.csv was when the run started
    current_attempt,
    success,
    renames,     \* the os.rename calls made by the run
    sleeps,      \* the time.sleep calls made by the run
    report,      \* what the script told its caller: "" while it runs
    clock,       \* datetime.now(), in seconds
    snapshots,   \* the timestamped files: [script, ts] -> frame
    filtered,    \* filtered_dataset_<timestamp>.csv: <<>> when absent, else <<frame>>
    result,      \* what pipeline.py main returned: <<>> while it runs, else <<code>>
    validation_results, \* main.py validation_result: <<>> before, else <<file name -> is_valid>>
    summary,     \* what print_summary logged: <<>> before, else <<[validation, overall]>>
    args,        \* rename_validated_files.py: [dry_run, skip_backup] from sys.argv
    dataDir,     \* a directory of DATA_DIRS: file name -> frame
    backupDir,   \* BACKUP_DIR: <<>> when not created, else <<file name -> frame>>
    pending,     \* the entries of os.listdir the rename loop has still to visit
    attempt,     \* get_exchange_data: the attempts made
    waits,       \* get_exchange_data: the seconds of each time.sleep, in order
    downloads,   \* get_exchange_data: the calls of yf.download
    returned,    \* get_exchange_data: <<>> while it runs, else <<value returned>>
    backups,     \* check_and_fix_missing_values: the contents backup_file has copied
    pc

exchangeVars == <<exFiles, download, filled, averaged>>
publishVars == <<latest, temp, backup, prior, current_attempt, success, renames, sleeps, report>>
combineVars == <<features, merged, combined, runs, publishVars>>
stepVars == <<filtered, result>>
mainVars == <<validation_results, summary>>
renameVars == <<args, dataDir, backupDir, pending>>
retryVars == <<attempt, waits, downloads, returned>>
toolVars == <<stepVars, mainVars, renameVars, retryVars, backups>>
vars == <<exFiles, download, filled, averaged, features, merged, combined, runs,
          publishVars, clock, snapshots, toolVars, pc>>

\* the timestamped files after script wrote table under the name of this second
WriteSnapshot(script, table) ==
    [k \in DOMAIN snapshots \cup {[script |-> script, ts |-> clock]} |->
        IF k = [script |-> script, ts |-> clock] THEN table ELSE snapshots[k]]

\* no publish under way, no timestamped file written yet
InitIdle ==
    /\ latest = <<>>
    /\ temp = <<>>
    /\ backup = <<>>
    /\ prior = <<>>
    /\ current_attempt = 0
    /\ success = FALSE
    /\ renames = 0
    /\ sleeps = 0
    /\ report = ""
    /\ clock = 1
    /\ snapshots = <<>>

\* backup_file (lines 154-168) called at line 81 before the file is written
\* at line 82: the content of the file copied into the backup directory.
\* When the copy raises, backup_file prints the error and returns False
\* (lines 166-168), the backups are as they were, and load_and_check_csv,
\* which does not read what backup_file returns, writes the file all the same
backup_file(content) == backups \cup {content}

\* the scripts outside the averaging and combining steps have not run
InitTools ==
    /\ filtered = <<>>
    /\ result = <<>>
    /\ validation_results = <<>>
    /\ summary = <<>>
    /\ args = [dry_run |-> FALSE, skip_backup |-> FALSE]
    /\ dataDir = <<>>
    /\ backupDir = <<>>
    /\ pending = {}
    /\ attempt = 0
    /\ waits = <<>>
    /\ downloads = 0
    /\ returned = <<>>
    /\ backups = {}

Cells == {NaN} \cup {Num(v) : v \in Vals}
Currencies == {"USD", "EUR"}

\* what a download or a file of processed_exchanges holds: rows in
\* ascending date order, repeated dates and missing cells allowed
RawRow == [Date : 1..MaxDate, Currency : {""}, c : [{"Close"} -> Cells]]
RawRows(n) ==
    {r \in [1..n -> RawRow] : \A i \in 1..n, j \in 1..n : i < j => r[i].Date <= r[j].Date}
RawFrames == {[cols |-> <<"Close">>, rows |-> r] : r \in UNION {RawRows(n) : n \in 0..MaxRows}}

Dirs(names, frames) == UNION {[S -> frames] : S \in SUBSET names}

\* the cells that are missing in before and hold a value in after
NewlyFilled(e, before, after) ==
    {x \in [file : {e}, row : Indices(after.rows), col : ColSet(after)] :
        /\ ~isna(after.rows[x.row].c[x.col])
        /\ (x.col \in ColSet(before) => isna(before.rows[x.row].c[x.col]))}

InitBlank ==
    /\ download = <<>>
    /\ filled = {}
    /\ averaged = <<>>
    /\ features = <<>>
    /\ merged = <<>>
    /\ combined = <<>>
    /\ runs = <<>>
    /\ InitIdle
    /\ pc = "collect"

\* a source may or may not deliver Adj Close; an index has no dividends,
\* its Adj Close is its Close
WithAdjClose(df) == SetCol(df, "Adj Close", ColVals(df, "Close"))
WithOptionalAdj(frames) == frames \cup {WithAdjClose(f) : f \in frames}

\* a per-index file: one row per date, a Close column
IndexVals == {10}
IndexRow == [Date : 1..MaxDate, Currency : {""},
             c : [{"Close"} -> ({NaN} \cup {Num(v) : v \in IndexVals})]]
IndexRows(n) ==
    {r \in [1..n -> IndexRow] : \A i \in 1..n, j \in 1..n : i < j => r[i].Date < r[j].Date}
IndexFrames ==
    {[cols |-> <<"Close">>, rows |-> r] : r \in UNION {IndexRows(n) : n \in 0..MaxRows}}

\* files found in processed_exchanges: A a per-index file, B any file
\* (all_indices_processed.csv repeats every date once per index)
InitAvg ==
    /\ exFiles \in {a @@ b : a \in Dirs({"A"}, IndexFrames),
                              b \in Dirs({"B"}, WithOptionalAdj(RawFrames))}
    /\ InitBlank
    /\ InitTools

\* an empty processed_exchanges directory
InitFetch == exFiles = <<>> /\ InitBlank /\ InitTools

\* process_all_exchanges for one index: yf.download returns
Download(e) ==
    /\ pc = "collect"
    /\ download = <<>>
    /\ e \notin DOMAIN exFiles
    /\ \E raw \in RawFrames, currency \in Currencies :
          /\ Len(raw.rows) > 0
          /\ download' = <<[e |-> e, raw |-> raw, currency |-> currency]>>
    /\ UNCHANGED <<exFiles, filled, averaged, pc, clock, snapshots>>
    /\ UNCHANGED combineVars
    /\ UNCHANGED toolVars

\* process_all_exchanges for one index: the rest of get_exchange_data,
\* process_exchange_data, the file saved
SaveExchangeData ==
    /\ pc = "collect"
    /\ download # <<>>
    /\ LET e == download[1].e
           file == process_exchange_data(
                       get_exchange_data(download[1].raw, download[1].currency))
           bare == process_exchange_data_nofill(
                       get_exchange_data_nofill(download[1].raw, download[1].currency))
       IN /\ exFiles' = exFiles @@ (e :> file)
          /\ filled' = filled \cup NewlyFilled(e, bare, file)
    /\ download' = <<>>
    /\ UNCHANGED <<averaged, pc, clock, snapshots>>
    /\ UNCHANGED combineVars
    /\ UNCHANGED toolVars

\* check_and_fix_missing_values.py on one file of processed_exchanges
CheckAndFix(e) ==
    /\ pc = "collect"
    /\ download = <<>>
    /\ e \in DOMAIN exFiles
    /\ load_and_check_csv(exFiles[e]) # exFiles[e]
    /\ exFiles' = [exFiles EXCEPT ![e] = load_and_check_csv(exFiles[e])]
    /\ filled' = filled \cup NewlyFilled(e, exFiles[e], load_and_check_csv(exFiles[e]))
    /\ backups' \in {backup_file(exFiles[e]), backups}
    /\ UNCHANGED <<download, averaged, pc, clock, snapshots>>
    /\ UNCHANGED combineVars
    /\ UNCHANGED <<stepVars, mainVars, renameVars, retryVars>>

\* average_exchanges.py main: load, average, save the latest file
AverageExchangesMain ==
    /\ pc = "collect"
    /\ download = <<>>
    /\ \E listing \in SeqOf(DOMAIN exFiles) :
          \E data \in {load_exchange_data(exFiles, listing)} :
             IF data = <<>>
             THEN /\ pc' = "nodata"
                  /\ UNCHANGED <<averaged, snapshots>>
             ELSE /\ \E colOrder \in SeqOf(all_columns(data)) :
                        \E table \in {average_exchanges(data, colOrder)} :
                           /\ averaged' = <<table>>
                           /\ snapshots' = WriteSnapshot("averaged_exchanges", table)
                  /\ pc' = "averaged"
    /\ UNCHANGED <<exFiles, download, filled, clock>>
    /\ UNCHANGED combineVars
    /\ UNCHANGED toolVars

\* fix_closeusd_values.py fix_all_files, one file of processed_exchanges
FixCloseUSD(e) ==
    /\ pc = "collect"
    /\ download = <<>>
    /\ e \in DOMAIN exFiles
    /\ \E mapped \in Currencies \cup {""} :
          /\ apply_currency_conversion(exFiles[e], mapped, FALSE) # exFiles[e]
          /\ exFiles' = [exFiles EXCEPT
                            ![e] = apply_currency_conversion(exFiles[e], mapped, FALSE)]
          /\ filled' = filled \cup NewlyFilled(e, exFiles[e],
                            apply_currency_conversion(exFiles[e], mapped, FALSE))
    /\ UNCHANGED <<download, averaged, pc, clock, snapshots>>
    /\ UNCHANGED combineVars
    /\ UNCHANGED toolVars

\* a file of processed_exchanges written by an earlier run: Close, CloseUSD
\* and Currency columns, the CloseUSD cells as that run converted them
FixRow == [Date : 1..MaxDate, Currency : {""}, c : [{"Close", "CloseUSD"} -> Cells]]
FixRows(n) ==
    {r \in [1..n -> FixRow] : \A i \in 1..n, j \in 1..n : i < j => r[i].Date < r[j].Date}
FixFrames ==
    {WithCurrency([cols |-> <<"Close", "CloseUSD">>, rows |-> r], cur) :
        r \in UNION {FixRows(n) : n \in 1..MaxRows}, cur \in Currencies}

InitFix == exFiles \in [{"A"} -> FixFrames] /\ InitBlank /\ InitTools

NextFix ==
    \/ \E e \in EXCH : CheckAndFix(e)
    \/ \E e \in EXCH : FixCloseUSD(e)

SpecFix == InitFix /\ [][NextFix]_vars

\* as CreateCombinedDataset, the timestamped file of line 235 not written
CreateCombinedDataset_NoSnapshot ==
    /\ pc \in {"averaged", "nodata"}
    /\ IF averaged = <<>> \/ ReadRaises(averaged[1])
       THEN /\ pc' = "failed"
            /\ UNCHANGED <<merged, combined, runs, snapshots>>
       ELSE /\ \E order \in SeqOf(DOMAIN features) :
                  LET table == MergedTable(averaged[1], features, order)
                  IN /\ merged' = <<table>>
                     /\ combined' = <<WrittenTable(table)>>
                     /\ runs' = Append(runs, [averaged |-> averaged[1],
                                              combined |-> WrittenTable(table)])
                     /\ snapshots' = snapshots
            /\ pc' = "combined"
    /\ UNCHANGED <<features, publishVars, clock>>
    /\ UNCHANGED exchangeVars
    /\ UNCHANGED toolVars

\* create_combined_dataset.py main (lines 23-236), run after average_exchanges
\* whether that found data or not: the averaged file as base (when reading it
\* raises, the except of line 90 returns), the feature files in glob order,
\* sort, fill, the timestamped file written
CreateCombinedDataset ==
    /\ pc \in {"averaged", "nodata"}
    /\ IF averaged = <<>> \/ ReadRaises(averaged[1])
       THEN /\ pc' = "failed"
            /\ UNCHANGED <<merged, combined, runs, snapshots>>
       ELSE /\ \E order \in SeqOf(DOMAIN features) :
                  LET table == MergedTable(averaged[1], features, order)
                  IN /\ merged' = <<table>>
                     /\ combined' = <<WrittenTable(table)>>
                     /\ runs' = Append(runs, [averaged |-> averaged[1],
                                              combined |-> WrittenTable(table)])
                     /\ snapshots' = WriteSnapshot("combined_dataset", WrittenTable(table))
            /\ pc' = "combined"
    /\ UNCHANGED <<features, publishVars, clock>>
    /\ UNCHANGED exchangeVars
    /\ UNCHANGED toolVars

\* averaged_exchanges.csv as average_exchanges writes it: one row per
\* timestamp in ascending order, CloseUSD present when the sources had it
MaxStamp == 5
AvgRow == [Date : 1..MaxStamp, Currency : {""}, c : [{"Close"} -> Cells]]
AvgRows(n) ==
    {r \in [1..n -> AvgRow] : \A i \in 1..n, j \in 1..n : i < j => r[i].Date < r[j].Date}
WithCloseUSD(df) == SetCol(df, "CloseUSD", ColVals(df, "Close"))
AvgFrames ==
    LET plain == {[cols |-> <<"Close">>, rows |-> r] :
                     r \in UNION {AvgRows(n) : n \in 1..MaxRows}}
    IN plain \cup {WithCloseUSD(f) : f \in plain}

\* a file of additional_features: daily rows in ascending order, repeated
\* dates and missing cells allowed
FeatureVals == {30}
FeatureRow == [Date : {DayOf(t) : t \in 1..MaxStamp}, Currency : {""},
               c : [{"Hash Rate"} -> ({NaN} \cup {Num(v) : v \in FeatureVals})]]
FeatureRows(n) ==
    {r \in [1..n -> FeatureRow] : \A i \in 1..n, j \in 1..n : i < j => r[i].Date <= r[j].Date}
FeatureFrames ==
    {[cols |-> <<"Hash Rate">>, rows |-> r] : r \in UNION {FeatureRows(n) : n \in 0..MaxRows}}

InitCombine ==
    /\ exFiles = <<>>
    /\ download = <<>>
    /\ filled = {}
    /\ averaged \in {<<f>> : f \in AvgFrames}
    /\ features \in Dirs({"onchain_metrics.csv"}, FeatureFrames)
    /\ merged = <<>>
    /\ combined = <<>>
    /\ runs = <<>>
    /\ InitIdle
    /\ pc = "averaged"
    /\ InitTools

NextCombine == CreateCombinedDataset

SpecCombine == InitCombine /\ [][NextCombine]_vars

\* pipeline.py main started once more on the same input files
MaxRuns == 2
PipelineMain ==
    /\ pc = "combined"
    /\ Len(runs) < MaxRuns
    /\ pc' = "collect"
    /\ UNCHANGED <<features, merged, combined, runs, publishVars, clock, snapshots>>
    /\ UNCHANGED exchangeVars
    /\ UNCHANGED toolVars

\* the input files of a pipeline run: two files of processed_exchanges of
\* one row each, two feature files of one row each, all on the first day
PipelineExchange ==
    {f \in WithOptionalAdj(RawFrames) : Len(f.rows) = 1 /\ f.rows[1].Date = DayOf(1)}
PipelineFeature(file) ==
    {[cols |-> <<IF file = "currency_metrics.csv" THEN "BTC/USD" ELSE "Hash Rate">>,
      rows |-> <<[Date |-> DayOf(1), Currency |-> "",
                  c |-> [col \in {IF file = "currency_metrics.csv" THEN "BTC/USD"
                                   ELSE "Hash Rate"} |-> v]]>>] :
        v \in {NaN} \cup {Num(x) : x \in FeatureVals}}

InitPipeline ==
    /\ exFiles \in Dirs(EXCH, PipelineExchange)
    /\ features \in {a @@ b :
                        a \in Dirs({"onchain_metrics.csv"},
                                   PipelineFeature("onchain_metrics.csv")),
                        b \in Dirs({"currency_metrics.csv"},
                                   PipelineFeature("currency_metrics.csv"))}
    /\ download = <<>>
    /\ filled = {}
    /\ averaged = <<>>
    /\ merged = <<>>
    /\ combined = <<>>
    /\ runs = <<>>
    /\ InitIdle
    /\ pc = "collect"
    /\ InitTools

NextPipeline ==
    \/ AverageExchangesMain
    \/ CreateCombinedDataset
    \/ PipelineMain

SpecPipeline == InitPipeline /\ [][NextPipeline]_vars

(* ------- create_combined_dataset.py: the latest file (lines 238-292) ---- *)
max_attempts == 5

\* lines 243-245: final_df.to_csv(temp_file) writes the file, or raises and
\* the except of line 283 ends the publish
SaveTemp ==
    /\ pc = "combined"
    /\ \/ /\ temp' = combined
          /\ pc' = "backup"
       \/ /\ temp' = temp
          /\ pc' = "report"
    /\ UNCHANGED <<latest, backup, prior, current_attempt, success, renames, sleeps, report>>
    /\ UNCHANGED <<features, merged, combined, runs, clock, snapshots>>
    /\ UNCHANGED exchangeVars
    /\ UNCHANGED toolVars

\* lines 247-259: shutil.copy2 of an existing latest file succeeds or raises
\* (a warning is printed); the loop variables are set
BackupLatest ==
    /\ pc = "backup"
    /\ backup' \in (IF latest # <<>> THEN {latest, backup} ELSE {backup})
    /\ current_attempt' = 0
    /\ success' = FALSE
    /\ pc' = "loop"
    /\ UNCHANGED <<latest, temp, prior, renames, sleeps, report>>
    /\ UNCHANGED <<features, merged, combined, runs, clock, snapshots>>
    /\ UNCHANGED exchangeVars
    /\ UNCHANGED toolVars

\* lines 261-269: the loop is entered; os.remove of an existing latest file
\* succeeds or raises (a warning is printed)
RemoveLatest ==
    /\ pc = "loop"
    /\ current_attempt < max_attempts /\ ~success
    /\ latest' \in (IF latest # <<>> THEN {<<>>, latest} ELSE {latest})
    /\ pc' = "rename"
    /\ UNCHANGED <<temp, backup, prior, current_attempt, success, renames, sleeps, report>>
    /\ UNCHANGED <<features, merged, combined, runs, clock, snapshots>>
    /\ UNCHANGED exchangeVars
    /\ UNCHANGED toolVars

\* as RenameTemp, sleeping after the last failed attempt too
RenameTemp_SleepsAlways ==
    /\ pc = "rename"
    /\ renames' = renames + 1
    /\ \/ /\ temp # <<>>
          /\ latest' = temp
          /\ temp' = <<>>
          /\ success' = TRUE
          /\ UNCHANGED <<current_attempt, sleeps>>
       \/ /\ current_attempt' = current_attempt + 1
          /\ sleeps' = sleeps + 1
          /\ UNCHANGED <<latest, temp, success>>
    /\ pc' = "loop"
    /\ UNCHANGED <<backup, prior, report>>
    /\ UNCHANGED <<features, merged, combined, runs, clock, snapshots>>
    /\ UNCHANGED exchangeVars
    /\ UNCHANGED toolVars

\* lines 271-281: os.rename(temp_file, static_path) succeeds, or raises: the
\* attempt is counted and, when attempts are left, time.sleep(1)
RenameTemp ==
    /\ pc = "rename"
    /\ renames' = renames + 1
    /\ \/ /\ temp # <<>>
          /\ latest' = temp
          /\ temp' = <<>>
          /\ success' = TRUE
          /\ UNCHANGED <<current_attempt, sleeps>>
       \/ /\ current_attempt' = current_attempt + 1
          /\ sleeps' = (IF current_attempt + 1 < max_attempts THEN sleeps + 1 ELSE sleeps)
          /\ UNCHANGED <<latest, temp, success>>
    /\ pc' = "loop"
    /\ UNCHANGED <<backup, prior, report>>
    /\ UNCHANGED <<features, merged, combined, runs, clock, snapshots>>
    /\ UNCHANGED exchangeVars
    /\ UNCHANGED toolVars

\* line 261: the loop condition is false
LoopExit ==
    /\ pc = "loop"
    /\ ~(current_attempt < max_attempts /\ ~success)
    /\ pc' = "report"
    /\ UNCHANGED publishVars
    /\ UNCHANGED <<features, merged, combined, runs, clock, snapshots>>
    /\ UNCHANGED exchangeVars
    /\ UNCHANGED toolVars

\* lines 286-295: "Combined dataset created successfully!", main returns and
\* the script exits with status 0
Report ==
    /\ pc = "report"
    /\ report' = "success"
    /\ pc' = "done"
    /\ UNCHANGED <<latest, temp, backup, prior, current_attempt, success, renames, sleeps>>
    /\ UNCHANGED <<features, merged, combined, runs, clock, snapshots>>
    /\ UNCHANGED exchangeVars
    /\ UNCHANGED toolVars

\* a run of create_combined_dataset.py on an averaged file of one row, with
\* or without a latest file left by an earlier run
PublishAvg == {f \in AvgFrames : Len(f.rows) = 1 /\ f.rows[1].Date = DayOf(1)}
InitPublish ==
    /\ exFiles = <<>>
    /\ download = <<>>
    /\ filled = {}
    /\ averaged \in {<<f>> : f \in PublishAvg}
    /\ features = <<>>
    /\ merged = <<>>
    /\ combined = <<>>
    /\ runs = <<>>
    /\ latest \in {<<>>} \cup {<<WrittenTable(MergedTable(f, <<>>, <<>>))>> : f \in PublishAvg}
    /\ prior = latest
    /\ temp = <<>>
    /\ backup = <<>>
    /\ current_attempt = 0
    /\ success = FALSE
    /\ renames = 0
    /\ sleeps = 0
    /\ report = ""
    /\ clock = 1
    /\ snapshots = <<>>
    /\ pc = "averaged"
    /\ InitTools

NextPublish ==
    \/ CreateCombinedDataset
    \/ SaveTemp
    \/ BackupLatest
    \/ RemoveLatest
    \/ RenameTemp
    \/ LoopExit
    \/ Report

SpecPublish == InitPublish /\ [][NextPublish]_vars

\* the statements of lines 243-292
PublishStep ==
    \/ SaveTemp
    \/ BackupLatest
    \/ RemoveLatest
    \/ RenameTemp
    \/ LoopExit
    \/ Report

\* the script runs on: each statement of the publish is followed by the next
SpecPublishFair == SpecPublish /\ WF_vars(PublishStep)

(* ------------------------ the timestamped files ------------------------ *)
\* datetime.now() read by a later call shows a later second
MaxClock == 2
Tick ==
    /\ clock < MaxClock
    /\ clock' = clock + 1
    /\ UNCHANGED <<snapshots, pc>>
    /\ UNCHANGED combineVars
    /\ UNCHANGED exchangeVars
    /\ UNCHANGED toolVars

\* check_and_fix_missing_values.py process_all_files reaching, in its walk
\* of datasets, a timestamped file of processed_exchanges that has missing
\* values: the file is rewritten in place (line 82)
CheckAndFixSnapshot(k) ==
    /\ k \in DOMAIN snapshots
    /\ k.script = "averaged_exchanges"
    /\ AnyMissing(AddMissingCols(snapshots[k], REQUIRED_COLS, 1))
    /\ snapshots' = [snapshots EXCEPT ![k] = load_and_check_csv(snapshots[k])]
    /\ backups' \in {backup_file(snapshots[k]), backups}
    /\ UNCHANGED <<clock, pc>>
    /\ UNCHANGED combineVars
    /\ UNCHANGED exchangeVars
    /\ UNCHANGED <<stepVars, mainVars, renameVars, retryVars>>

\* the names a timestamped file can have
SnapshotKeys == [script : {"averaged_exchanges", "combined_dataset"}, ts : 1..MaxClock]

\* the scripts run, and run again, on two files of processed_exchanges
InitSnapshot ==
    /\ exFiles \in Dirs(EXCH, PipelineExchange)
    /\ features = <<>>
    /\ download = <<>>
    /\ filled = {}
    /\ averaged = <<>>
    /\ merged = <<>>
    /\ combined = <<>>
    /\ runs = <<>>
    /\ InitIdle
    /\ pc = "collect"
    /\ InitTools

NextSnapshot ==
    \/ AverageExchangesMain
    \/ CreateCombinedDataset
    \/ PipelineMain
    \/ Tick
    \/ \E k \in SnapshotKeys : CheckAndFixSnapshot(k)

SpecSnapshot == InitSnapshot /\ [][NextSnapshot]_vars

(* ------------------- files with dates that do not parse ---------------- *)
\* a file with one value column col: its rows in ascending order of the
\* dates that parse, no date twice, any row's Date possibly no date
DatedRow(col) ==
    [Date : {BadDate} \cup {DayOf(t) : t \in 1..MaxDate}, Currency : {""},
     c : [{col} -> {Num(v) : v \in IndexVals}]]
DatedRows(col, n) ==
    {r \in [1..n -> DatedRow(col)] :
        \A i \in 1..n, j \in 1..n :
            (i < j /\ r[i].Date # BadDate /\ r[j].Date # BadDate) => r[i].Date < r[j].Date}
DatedFrames(col) ==
    {[cols |-> <<col>>, rows |-> r] : r \in UNION {DatedRows(col, n) : n \in 1..MaxRows}}

MaxComments == 2

\* the files of dir, each behind 0..MaxComments lines beginning with '#'
WithComments(dirs) ==
    {[f \in DOMAIN d |-> [cols |-> d[f].cols, rows |-> d[f].rows, comments |-> n]] :
        d \in dirs, n \in 0..MaxComments}

\* one file in processed_exchanges, an averaged_exchanges.csv of one row
\* left there earlier or none, two feature files, the second one of the
\* currency metrics or a second file of on-chain metrics
InitDates ==
    /\ exFiles \in Dirs({"A"}, DatedFrames("Close"))
    /\ averaged \in {<<>>} \cup {<<f>> : f \in {g \in DatedFrames("Close") : Len(g.rows) = 1}}
    /\ features \in {a @@ b :
                        a \in WithComments(Dirs({"onchain_metrics.csv"},
                                                DatedFrames("Hash Rate"))),
                        b \in Dirs({"currency_metrics.csv"}, DatedFrames("BTC/USD"))
                              \cup Dirs({"onchain_fees.csv"}, DatedFrames("Hash Rate"))}
    /\ download = <<>>
    /\ filled = {}
    /\ merged = <<>>
    /\ combined = <<>>
    /\ runs = <<>>
    /\ InitIdle
    /\ pc = "collect"
    /\ InitTools

NextDates ==
    \/ AverageExchangesMain
    \/ CreateCombinedDataset

SpecDates == InitDates /\ [][NextDates]_vars

NextAvg == AverageExchangesMain

SpecAvg == InitAvg /\ [][NextAvg]_vars

NextFetch ==
    \/ \E e \in EXCH : Download(e)
    \/ SaveExchangeData
    \/ \E e \in EXCH : CheckAndFix(e)
    \/ AverageExchangesMain

SpecFetch == InitFetch /\ [][NextFetch]_vars

(* ------------- filter_combined_dataset.py, pipeline.py main ------------- *)
\* columns_to_keep (lines 49-64) restricted to the columns of the model
columns_to_keep == <<"AVG CloseUSD", "BTC/USD">>

\* lines 69-110: the columns of the list that the table has, in the order
\* of the list, 'AVG ' cut from their names, the rows sorted by Date
FilteredTable(df) ==
    LET existing == SelectIdx(columns_to_keep,
                        [k \in Indices(columns_to_keep) |-> columns_to_keep[k] \in ColSet(df)], 1)
        renamed == [col \in Range(existing) |->
                      IF col = "AVG CloseUSD" THEN "CloseUSD" ELSE col]
    IN [cols |-> [k \in Indices(existing) |-> renamed[existing[k]]],
        rows |-> SortRowsByDate(
                    [i \in Indices(df.rows) |->
                        [Date |-> df.rows[i].Date, Currency |-> "",
                         c |-> [name \in {renamed[col] : col \in Range(existing)} |->
                                  df.rows[i].c[CHOOSE col \in Range(existing) :
                                                  renamed[col] = name]]]])]

\* pipeline.py step 3 (lines 66-70), run after create_combined_dataset ended
\* with status 0 (its main returns nothing on every path, lines 93, 96, 292):
\* filter_combined_dataset.py main returns 1 when the latest file is not
\* there (lines 30-33), else writes the filtered table (line 120)
FilterCombinedDataset ==
    /\ pc \in {"done", "failed"}
    /\ IF latest = <<>>
       THEN pc' = "nofile" /\ filtered' = filtered
       ELSE pc' = "filtered" /\ filtered' = <<FilteredTable(latest[1])>>
    /\ UNCHANGED <<result, clock, snapshots, mainVars, renameVars, retryVars, backups>>
    /\ UNCHANGED combineVars
    /\ UNCHANGED exchangeVars

\* pipeline.py lines 68-74: 1 when the filter step ended with a status
\* other than 0, else 0
PipelineReturn ==
    /\ pc \in {"nofile", "filtered"}
    /\ result' = IF pc = "nofile" THEN <<1>> ELSE <<0>>
    /\ pc' = "returned"
    /\ UNCHANGED <<filtered, clock, snapshots, mainVars, renameVars, retryVars, backups>>
    /\ UNCHANGED combineVars
    /\ UNCHANGED exchangeVars

NextSteps ==
    \/ AverageExchangesMain
    \/ CreateCombinedDataset
    \/ PublishStep
    \/ FilterCombinedDataset
    \/ PipelineReturn

SpecSteps == InitPipeline /\ [][NextSteps]_vars

(* ----------------------- rename_validated_files.py --------------------- *)
\* the files a data directory can hold; 'b_fixed.csv' stands for a file such
\* as volatility_currency_combined_fixed.csv
FileNames == {"a.csv", "a_validated.csv", "b_fixed.csv", "b_fixed_validated.csv"}

\* file.endswith('_validated.csv') (line 66) on the names of the model
IsValidated(file) == file \in {"a_validated.csv", "b_fixed_validated.csv"}

\* file.replace('_validated.csv', '.csv') (line 67) on the names of the model
OriginalOf(file) ==
    CASE file = "a_validated.csv" -> "a.csv"
      [] file = "b_fixed_validated.csv" -> "b_fixed.csv"
      [] OTHER -> file

\* line 45: the files backup_original_files copies
IsBackedUp(file) == file \in {"a.csv"}

\* what a file of the data directories holds: no row, or one row whose date
\* may be no date and whose value may be missing
ToolFrames ==
    {[cols |-> <<"Close">>, rows |-> r] :
        r \in {<<>>} \cup {<<[Date |-> d, Currency |-> "", c |-> [col \in {"Close"} |-> v]]>> :
                              d \in {BadDate, DayOf(1)}, v \in {NaN, Num(10)}}}

\* main (lines 92-111) up to the call of rename_validated_files:
\* backup_original_files (lines 30-53) copies every file of line 45 or is
\* ended by a copy that raises, the files copied before it left behind;
\* with no file copied the script ends (lines 107-109)
RenameMain ==
    /\ pc = "rn_main"
    /\ IF ~args.skip_backup /\ ~args.dry_run
       THEN LET originals == {f \in DOMAIN dataDir : IsBackedUp(f)}
            IN \/ /\ backupDir' = <<[f \in originals |-> dataDir[f]]>>
                  /\ IF originals = {}
                     THEN pc' = "rn_done" /\ pending' = pending
                     ELSE /\ pc' = "rn_rename"
                          /\ pending' = {f \in DOMAIN dataDir : IsValidated(f)}
               \/ /\ originals # {}
                  /\ \E copied \in SUBSET originals :
                        /\ copied # originals
                        /\ backupDir' = <<[f \in copied |-> dataDir[f]]>>
                  /\ pc' = "rn_crashed"
                  /\ pending' = pending
       ELSE /\ pc' = "rn_rename"
            /\ pending' = {f \in DOMAIN dataDir : IsValidated(f)}
            /\ backupDir' = backupDir
    /\ UNCHANGED <<args, dataDir>>
    /\ UNCHANGED <<exchangeVars, combineVars, clock, snapshots, stepVars, mainVars,
                   retryVars, backups>>

\* as RenameValidated, without the test of dry_run of line 77
RenameValidated_IgnoresDryRun(file) ==
    /\ pc = "rn_rename"
    /\ file \in pending
    /\ pending' = pending \ {file}
    /\ IF OriginalOf(file) \notin DOMAIN dataDir
       THEN dataDir' = dataDir
       ELSE \/ dataDir' = dataDir
            \/ dataDir' = [f \in DOMAIN dataDir \ {OriginalOf(file)} |-> dataDir[f]]
            \/ dataDir' = [f \in DOMAIN dataDir \ {file} |->
                              IF f = OriginalOf(file) THEN dataDir[file] ELSE dataDir[f]]
    /\ UNCHANGED <<args, backupDir, pc>>
    /\ UNCHANGED <<exchangeVars, combineVars, clock, snapshots, stepVars, mainVars,
                   retryVars, backups>>

\* one turn of the loop of lines 65-87 on a validated file: skipped when
\* the original is not there (lines 72-75), printed only under dry_run
\* (lines 77-78), else os.remove raises and nothing is changed, or os.remove
\* is done and os.rename raises, or both are done (lines 80-87)
RenameValidated(file) ==
    /\ pc = "rn_rename"
    /\ file \in pending
    /\ pending' = pending \ {file}
    /\ IF OriginalOf(file) \notin DOMAIN dataDir \/ args.dry_run
       THEN dataDir' = dataDir
       ELSE \/ dataDir' = dataDir
            \/ dataDir' = [f \in DOMAIN dataDir \ {OriginalOf(file)} |-> dataDir[f]]
            \/ dataDir' = [f \in DOMAIN dataDir \ {file} |->
                              IF f = OriginalOf(file) THEN dataDir[file] ELSE dataDir[f]]
    /\ UNCHANGED <<args, backupDir, pc>>
    /\ UNCHANGED <<exchangeVars, combineVars, clock, snapshots, stepVars, mainVars,
                   retryVars, backups>>

\* lines 89-90 and 114-128: the loop is over, the summary is printed
RenameEnd ==
    /\ pc = "rn_rename"
    /\ pending = {}
    /\ pc' = "rn_done"
    /\ UNCHANGED renameVars
    /\ UNCHANGED <<exchangeVars, combineVars, clock, snapshots, stepVars, mainVars,
                   retryVars, backups>>

\* the script started with any of its options on any data directory
InitRename ==
    /\ exFiles = <<>>
    /\ download = <<>>
    /\ filled = {}
    /\ averaged = <<>>
    /\ features = <<>>
    /\ merged = <<>>
    /\ combined = <<>>
    /\ runs = <<>>
    /\ InitIdle
    /\ filtered = <<>>
    /\ result = <<>>
    /\ validation_results = <<>>
    /\ summary = <<>>
    /\ args \in [dry_run : BOOLEAN, skip_backup : BOOLEAN]
    /\ dataDir \in Dirs(FileNames, ToolFrames)
    /\ backupDir = <<>>
    /\ pending = {}
    /\ attempt = 0
    /\ waits = <<>>
    /\ downloads = 0
    /\ returned = <<>>
    /\ backups = {}
    /\ pc = "rn_main"

NextRename ==
    \/ RenameMain
    \/ \E file \in FileNames : RenameValidated(file)
    \/ RenameEnd

SpecRename == InitRename /\ [][NextRename]_vars

(* ------------------- main.py run_pipeline, validation.py ---------------- *)
\* validation.py validate_file (lines 22-94): is_valid
validate_file(df) ==
    /\ df.rows # <<>>
    /\ ~HeaderIsComment(df)
    /\ ~ReadRaises(df)
    /\ \A i \in Indices(df.rows), col \in ColSet(df) : ~isna(df.rows[i].c[col])

\* run_validation (lines 186-203): what validate_all_files returns, the
\* result of every .csv file that is no '_validated.csv' file (lines 108-122)
RunValidation ==
    /\ pc = "main_validate"
    /\ validation_results' =
          <<[f \in {g \in DOMAIN dataDir : ~IsValidated(g)} |-> validate_file(dataDir[f])]>>
    /\ pc' = "main_summary"
    /\ UNCHANGED <<summary, renameVars>>
    /\ UNCHANGED <<exchangeVars, combineVars, clock, snapshots, stepVars, retryVars, backups>>

\* print_summary (lines 226-256): validation_result is tested for truth,
\* and a dictionary is true when it has an entry
PrintSummary ==
    /\ pc = "main_summary"
    /\ \E all_collection_success \in BOOLEAN :
          summary' = <<[validation |-> IF DOMAIN validation_results[1] # {}
                                      THEN "All files valid"
                                      ELSE "Some files have issues",
                        overall |-> IF all_collection_success
                                       /\ DOMAIN validation_results[1] # {}
                                    THEN "Success" ELSE "Issues detected"]>>
    /\ pc' = "main_rename"
    /\ UNCHANGED <<validation_results, renameVars>>
    /\ UNCHANGED <<exchangeVars, combineVars, clock, snapshots, stepVars, retryVars, backups>>

\* run_pipeline lines 317-327, without --process-data: the rename script is
\* started without options when rename_validated and validation_result are
\* true
RenameIfRequested ==
    /\ pc = "main_rename"
    /\ \E rename_validated \in BOOLEAN :
          pc' = IF rename_validated /\ DOMAIN validation_results[1] # {}
                THEN "rn_main" ELSE "main_done"
    /\ UNCHANGED <<mainVars, renameVars>>
    /\ UNCHANGED <<exchangeVars, combineVars, clock, snapshots, stepVars, retryVars, backups>>

\* run_pipeline after the collection, on any data directory
InitMain ==
    /\ exFiles = <<>>
    /\ download = <<>>
    /\ filled = {}
    /\ averaged = <<>>
    /\ features = <<>>
    /\ merged = <<>>
    /\ combined = <<>>
    /\ runs = <<>>
    /\ InitIdle
    /\ filtered = <<>>
    /\ result = <<>>
    /\ validation_results = <<>>
    /\ summary = <<>>
    /\ args = [dry_run |-> FALSE, skip_backup |-> FALSE]
    /\ dataDir \in Dirs(FileNames, ToolFrames)
    /\ backupDir = <<>>
    /\ pending = {}
    /\ attempt = 0
    /\ waits = <<>>
    /\ downloads = 0
    /\ returned = <<>>
    /\ backups = {}
    /\ pc = "main_validate"

NextMain ==
    \/ RunValidation
    \/ PrintSummary
    \/ RenameIfRequested
    \/ NextRename

SpecMain == InitMain /\ [][NextMain]_vars

(* --------- get_exchange_data_simple.py: the retry loop (73-172) --------- *)
\* max_retries, the default of line 73 that process_all_exchanges leaves
max_retries == 3

\* required_columns (line 123) without Date, which reset_index adds
required_columns == {"Open", "High", "Low", "Close", "Volume"}

\* what yf.download can return: any of the required columns, Adj Close or
\* not, with no row or with the rows of a download; frame holds the cells
\* the model follows
YfDownloads ==
    {[cols |-> c, frame |-> r] :
        c \in SUBSET required_columns, r \in WithOptionalAdj(RawFrames)}

\* the value None that get_exchange_data returns in place of a frame
None == [none |-> TRUE]

RECURSIVE Power2(_)
\* 2 ** attempt (lines 111, 128, 165)
Power2(n) == IF n = 0 THEN 1 ELSE 2 * Power2(n - 1)

\* as Attempt, the sleep made before the test of attempt < max_retries
Attempt_SleepsAlways ==
    /\ pc = "fetch"
    /\ attempt < max_retries
    /\ attempt' = attempt + 1
    /\ downloads' = downloads + 1
    /\ \/ \E data \in YfDownloads, currency \in Currencies :
             /\ data.frame.rows # <<>>
             /\ Cardinality(data.cols) > 1
             /\ required_columns \subseteq data.cols
             /\ returned' = <<[cols |-> {"Date", "Index", "Currency"} \cup data.cols
                                          \cup ColSet(data.frame),
                               rows |-> get_exchange_data(data.frame, currency).rows]>>
             /\ pc' = "fetched"
             /\ waits' = waits
       \/ /\ waits' = Append(waits, Power2(attempt + 1))
          /\ IF attempt + 1 < max_retries
             THEN pc' = pc /\ returned' = returned
             ELSE pc' = "fetched" /\ returned' = <<None>>
    /\ UNCHANGED <<exchangeVars, combineVars, clock, snapshots, stepVars, mainVars,
                   renameVars, backups>>

\* one turn of the loop of lines 98-170: yf.download is called; a download
\* with rows and all required columns is formatted and returned (lines
\* 119-161); one that is empty, has a single column or lacks a required
\* column, or a call that raises, is followed by a sleep of 2 ** attempt
\* seconds and the next turn when attempt < max_retries, else None is
\* returned (lines 109-117, 126-134, 163-170)
Attempt ==
    /\ pc = "fetch"
    /\ attempt < max_retries
    /\ attempt' = attempt + 1
    /\ downloads' = downloads + 1
    /\ \/ \E data \in YfDownloads, currency \in Currencies :
             /\ data.frame.rows # <<>>
             /\ Cardinality(data.cols) > 1
             /\ required_columns \subseteq data.cols
             /\ returned' = <<[cols |-> {"Date", "Index", "Currency"} \cup data.cols
                                          \cup ColSet(data.frame),
                               rows |-> get_exchange_data(data.frame, currency).rows]>>
             /\ pc' = "fetched"
             /\ waits' = waits
       \/ IF attempt + 1 < max_retries
          THEN /\ waits' = Append(waits, Power2(attempt + 1))
               /\ pc' = pc
               /\ returned' = returned
          ELSE /\ waits' = waits
               /\ pc' = "fetched"
               /\ returned' = <<None>>
    /\ UNCHANGED <<exchangeVars, combineVars, clock, snapshots, stepVars, mainVars,
                   renameVars, backups>>

\* get_exchange_data called by process_all_exchanges for one index
InitRetry ==
    /\ exFiles = <<>>
    /\ download = <<>>
    /\ filled = {}
    /\ averaged = <<>>
    /\ features = <<>>
    /\ merged = <<>>
    /\ combined = <<>>
    /\ runs = <<>>
    /\ InitIdle
    /\ InitTools
    /\ pc = "fetch"

NextRetry == Attempt

SpecRetry == InitRetry /\ [][NextRetry]_vars

\* the loop runs on: a turn that is left by continue is followed by the next
SpecRetryFair == SpecRetry /\ WF_vars(Attempt)

(* ------------------------------- C1 ------------------------------------ *)
\* the exchanges whose file has a row dated d with a value in column col
Observers(dir, d, col) ==
    {e \in DOMAIN dir :
        /\ col \in ColSet(dir[e])
        /\ \E j \in Indices(dir[e].rows) :
              dir[e].rows[j].Date = d /\ ~isna(dir[e].rows[j].c[col])}

\* the value of exchange e at (d, col): its rows dated d, collapsed
ExchValue(dir, e, d, col) ==
    MeanNotNa(dir[e].rows, col, {j \in Indices(dir[e].rows) : dir[e].rows[j].Date = d})

RECURSIVE SumExch(_, _, _, _)
SumExch(dir, S, d, col) ==
    IF S = {} THEN Num(0)
    ELSE LET e == CHOOSE x \in S : TRUE
         IN RAdd(ExchValue(dir, e, d, col), SumExch(dir, S \ {e}, d, col))

ExpectedMean(dir, d, col) ==
    IF Observers(dir, d, col) = {} THEN NaN
    ELSE RDivInt(SumExch(dir, Observers(dir, d, col), d, col),
                 Cardinality(Observers(dir, d, col)))

\* C1: every cell (d, c) of the averaged table is the arithmetic mean of c
\* over exactly the exchanges that have a row dated d with a value of c;
\* an exchange without a row for d, or with a missing value there, adds
\* nothing to the sum and nothing to the count.
C1_CrossSourceAverage ==
    pc = "averaged" =>
        \A i \in Indices(averaged[1].rows), col \in ColSet(averaged[1]) :
            averaged[1].rows[i].c[col]
                = ExpectedMean(exFiles, averaged[1].rows[i].Date, col)

\* A observed at dates {1,2}, B at dates {2,3}, with different values at 2:
\* date 1 is A alone, date 2 the mean of both, date 3 B alone
C1_Witness ==
    /\ pc = "averaged"
    /\ DOMAIN exFiles = {"A", "B"}
    /\ exFiles["A"].cols = <<"Close">> /\ exFiles["B"].cols = <<"Close">>
    /\ Len(exFiles["A"].rows) = 2 /\ Len(exFiles["B"].rows) = 2
    /\ exFiles["A"].rows[1].Date = 1 /\ exFiles["A"].rows[1].c["Close"] = Num(10)
    /\ exFiles["A"].rows[2].Date = 2 /\ exFiles["A"].rows[2].c["Close"] = Num(10)
    /\ exFiles["B"].rows[1].Date = 2 /\ exFiles["B"].rows[1].c["Close"] = Num(20)
    /\ exFiles["B"].rows[2].Date = 3 /\ exFiles["B"].rows[2].c["Close"] = Num(20)
    /\ Len(averaged[1].rows) = 3
    /\ averaged[1].rows[1].c["Close"] = Num(10)
    /\ averaged[1].rows[2].c["Close"] = Num(15)
    /\ averaged[1].rows[3].c["Close"] = Num(20)

(* ------------------------------- C2 ------------------------------------ *)
\* the directory with every cell that a fill synthesized taken as missing
ObservedOnly(dir, syn) ==
    [e \in DOMAIN dir |->
        [cols |-> dir[e].cols,
         rows |-> [i \in Indices(dir[e].rows) |->
                     [Date |-> dir[e].rows[i].Date, Currency |-> dir[e].rows[i].Currency,
                      c |-> [col \in ColSet(dir[e]) |->
                               IF [file |-> e, row |-> i, col |-> col] \in syn THEN NaN
                               ELSE dir[e].rows[i].c[col]]]]]]

\* C2: a cell whose value was synthesized by forward-fill, backward-fill or
\* interpolation adds neither to the sum nor to the count of the mean of
\* its date: the averaged table is the mean over the observed cells only.
C2_FilledNeverAveraged ==
    pc = "averaged" =>
        \A i \in Indices(averaged[1].rows), col \in ColSet(averaged[1]) :
            averaged[1].rows[i].c[col]
                = ExpectedMean(ObservedOnly(exFiles, filled), averaged[1].rows[i].Date, col)

(* ------------------------------- C4 ------------------------------------ *)
\* frame out holds, for every date of frame src, exactly one row, and its
\* cell in column col is the mean of the values src has at that date
CollapsedByMean(src, out, col) ==
    \A d \in Dates(src) \ {NaT} :
        /\ Cardinality({i \in Indices(out.rows) : out.rows[i].Date = d}) = 1
        /\ LET group == {j \in Indices(src.rows) : src.rows[j].Date = d}
           IN CountNotNa(src.rows, col, group) > 0 =>
                \A i \in Indices(out.rows) :
                    out.rows[i].Date = d =>
                        out.rows[i].c[col] = MeanNotNa(src.rows, col, group)

\* C4: wherever the code resolves duplicate dates of one source (the
\* download saved by get_exchange_data, the files read by
\* load_exchange_data), the rows of one date collapse to one row holding
\* the arithmetic mean of the colliding values, not the first one seen.
C4_DuplicateCollapse ==
    [][/\ (download # <<>> /\ download' = <<>>) =>
            CollapsedByMean(WithDayDates(download[1].raw),
                            exFiles'[download[1].e], "Close")
       /\ (pc = "collect" /\ pc' = "averaged" /\ DOMAIN exFiles = {"B"}) =>
            CollapsedByMean(exFiles["B"], averaged'[1], "Close")]_vars

(* ------------------------------- C3 ------------------------------------ *)
\* every cell that holds a value in frame before holds the same value in
\* frame after
KeepsObserved(before, after) ==
    /\ Len(after.rows) = Len(before.rows)
    /\ \A i \in Indices(before.rows), col \in ColSet(before) :
          ~isna(before.rows[i].c[col]) =>
              col \in ColSet(after) /\ after.rows[i].c[col] = before.rows[i].c[col]

\* C3: a fill or repair step (fix_missing_values, apply_currency_conversion,
\* the ffill/bfill of create_combined_dataset) changes only cells that were
\* missing: a cell that holds a value keeps it.
C3_NoObservedCorruption ==
    [][/\ \A e \in DOMAIN exFiles :
            (pc = "collect" /\ pc' = "collect" /\ download = <<>>) =>
                KeepsObserved(exFiles[e], exFiles'[e])
       /\ (merged' # <<>> /\ combined' # <<>>) =>
            KeepsObserved(merged'[1], combined'[1])]_vars

(* ------------------------------- C5 ------------------------------------ *)
\* the calendar days on which some input of create_combined_dataset has a row
InputDays ==
    {DayOf(d) : d \in Dates(averaged[1])}
        \cup UNION {{DayOf(d) : d \in Dates(features[f])} : f \in DOMAIN features}

Ascending(s) == \A i, j \in DOMAIN s : i < j => s[i] <= s[j]

\* C5: the date axis of the table an aggregation run writes is the sorted
\* union of the dates of its inputs: every day of the averaged file and of
\* every feature file is a row of the combined table, no other day is.
C5_AxisCompleteness ==
    combined # <<>> =>
        /\ Dates(combined[1]) = InputDays
        /\ Ascending(DateSeq(combined[1]))

(* ------------------------------- C6 ------------------------------------ *)
\* C6: the combined table has one row per distinct calendar date, sorted
\* ascending, and as many rows as the shared date axis has days, also when
\* timestamps of an input differ only in the time of day or a feature file
\* repeats a date.
C6_OneRowPerDate ==
    combined # <<>> =>
        /\ ~HasDuplicates(DateSeq(combined[1]))
        /\ Ascending(DateSeq(combined[1]))
        /\ Len(combined[1].rows) = Cardinality(InputDays)

(* ------------------------------- C7 ------------------------------------ *)
\* rows p < q of df bracket an interior gap of column col: both hold a
\* value, every row between them is missing
BracketsGap(df, col, p, q) ==
    /\ p + 1 < q
    /\ ~isna(df.rows[p].c[col])
    /\ ~isna(df.rows[q].c[col])
    /\ \A k \in (p + 1)..(q - 1) : isna(df.rows[k].c[col])
    /\ df.rows[p].Date < df.rows[q].Date

\* C7: an interior gap between two observed values is filled by linear
\* interpolation over the dates: the cell dated d between the values a at
\* date dp and b at date dq becomes a + (b - a) * (d - dp) / (dq - dp).
C7_DateInterpolation ==
    (merged # <<>> /\ combined # <<>>) =>
        \A col \in ColSet(combined[1]) :
            \A p, i, q \in Indices(merged[1].rows) :
                (BracketsGap(merged[1], col, p, q) /\ p < i /\ i < q) =>
                    combined[1].rows[i].c[col] =
                        RLerp(merged[1].rows[p].c[col], merged[1].rows[q].c[col],
                              merged[1].rows[i].Date - merged[1].rows[p].Date,
                              merged[1].rows[q].Date - merged[1].rows[p].Date)

(* ------------------------------- C8 ------------------------------------ *)
\* column col of df holds a value in some row
HasObserved(df, col) == \E i \in Indices(df.rows) : ~isna(df.rows[i].c[col])

\* C8: a metric with no observed value on the whole date axis is no column
\* of the written table.
C8_EmptyMetricExcluded ==
    (merged # <<>> /\ combined # <<>>) =>
        \A col \in ColSet(combined[1]) : HasObserved(merged[1], col)

(* ------------------------------- C9 ------------------------------------ *)
\* C9: after the fill step, a column of the written table that has at least
\* one observed value has no missing cell, wherever its gaps were.
C9_FilledComplete ==
    (merged # <<>> /\ combined # <<>>) =>
        \A col \in ColSet(combined[1]) :
            HasObserved(merged[1], col) =>
                \A i \in Indices(combined[1].rows) : ~isna(combined[1].rows[i].c[col])

\* a table written from one with an interior gap in one column and a
\* leading and a trailing gap in another
C9_Witness ==
    /\ merged # <<>>
    /\ combined # <<>>
    /\ Len(merged[1].rows) >= 3
    /\ \E col \in ColSet(combined[1]) :
          \E p, q \in Indices(merged[1].rows) : BracketsGap(merged[1], col, p, q)
    /\ \E col \in ColSet(combined[1]) :
          /\ HasObserved(merged[1], col)
          /\ isna(merged[1].rows[1].c[col])
          /\ isna(merged[1].rows[Len(merged[1].rows)].c[col])
    /\ \A col \in ColSet(combined[1]) :
          HasObserved(merged[1], col) =>
              \A i \in Indices(combined[1].rows) : ~isna(combined[1].rows[i].c[col])

(* ------------------------------- C10 ----------------------------------- *)
\* C10: the runs of the pipeline on the same input files write the same
\* tables, columns and rows in the same order, whatever the iteration
\* order of a set and the order of a directory listing were in each run.
C10_Idempotent == \A i, j \in DOMAIN runs : runs[i] = runs[j]

(* ------------------------------- C11 ----------------------------------- *)
\* the run made every rename attempt it is allowed and none succeeded
ReplaceFailed == pc = "done" /\ ~success /\ renames = max_attempts

\* C11: when every rename attempt of the run failed, the latest file that
\* was there before the run is still there when the run ends, with the
\* content it had.
C11_PriorLatestKept == (ReplaceFailed /\ prior # <<>>) => latest = prior

(* ------------------------------- C12 ----------------------------------- *)
\* C12: at every step of a run that found a latest file, a reader of
\* combined_dataset_latest.csv finds a file, holding the whole previous
\* table or the whole new table.
C12_LatestAlwaysReadable ==
    prior # <<>> => (latest # <<>> /\ (latest = prior \/ latest = combined))

(* ------------------------------- C13 ----------------------------------- *)
\* C13: a run whose rename attempts all failed does not tell its caller
\* that it succeeded.
C13_FailureSurfaced == ReplaceFailed => report # "success"

(* ------------------------------- C14 ----------------------------------- *)
\* the timestamped file of this run exists and holds the new table
SnapshotWritten ==
    /\ merged # <<>>
    /\ [script |-> "combined_dataset", ts |-> clock] \in DOMAIN snapshots
    /\ snapshots[[script |-> "combined_dataset", ts |-> clock]] = WrittenTable(merged[1])

\* C14: the timestamped snapshot is written before the publish step starts,
\* hence before the first rename attempt, and it exists with the new table
\* when the replacement has failed after its retries.
C14_SnapshotBeforeReplace ==
    (pc \in {"backup", "loop", "rename", "report", "done"} \/ renames > 0 \/ temp # <<>>)
        => SnapshotWritten

\* a run whose replacement failed after all retries, its snapshot written
C14_Witness == ReplaceFailed /\ SnapshotWritten /\ latest # combined

(* ------------------------------- C16 ----------------------------------- *)
\* at most max_attempts renames; a sleep only after a failed attempt that
\* another attempt follows; success set exactly when a rename succeeded
RetryBounded ==
    /\ renames <= max_attempts
    /\ current_attempt <= max_attempts
    /\ sleeps <= renames
    /\ (pc \in {"report", "done"} /\ renames > 0) => sleeps = renames - 1
    /\ renames > 0 => (success <=> renames = current_attempt + 1)
    /\ renames > 0 => (success <=> (temp = <<>> /\ latest = combined))
    /\ ~success => renames = current_attempt

\* C16: the replace loop makes at most 5 rename attempts, sleeps only
\* between attempts, sets success exactly when a rename succeeded, and the
\* run always comes to its end.
C16_BoundedRetry == [](RetryBounded) /\ (pc = "loop" ~> pc = "done")

\* a run that ended after five failed attempts and four sleeps
C16_Witness ==
    /\ pc = "done"
    /\ renames = max_attempts
    /\ sleeps = max_attempts - 1
    /\ ~success

(* ------------------------------- C15 ----------------------------------- *)
\* C15: a timestamped file, once written, stays as it is: no later step of
\* any script removes it, writes it again with another content or changes
\* it in place.
C15_SnapshotsAppendOnly ==
    [][\A k \in DOMAIN snapshots :
          k \in DOMAIN snapshots' /\ snapshots'[k] = snapshots[k]]_vars

(* ------------------------------- C17 ----------------------------------- *)
\* the columns feature file f brings to the combined table
ColumnsOf(f) == {ColumnName(f, features[f].cols[k]) : k \in Indices(features[f].cols)}

\* C17: a source that fails to load does not stop the others: when
\* create_combined_dataset has ended, a table is written and every feature
\* file that reads without error has its columns in it.
C17_SiblingsSurvive ==
    pc \in {"combined", "failed"} =>
        /\ combined # <<>>
        /\ \A f \in DOMAIN features :
              (~ReadRaises(features[f]) /\ ~HeaderIsComment(features[f]))
                  => ColumnsOf(f) \subseteq ColSet(combined[1])

(* ------------------------------- C18 ----------------------------------- *)
\* the days of the rows of df whose Date parses
ParseableDays(df) ==
    {DayOf(df.rows[i].Date) : i \in {j \in Indices(df.rows) : df.rows[j].Date # BadDate}}

\* C18: every loader drops the rows whose date does not parse and keeps the
\* other rows of the file: the averaged table has the parseable dates of the
\* exchange files, the combined table has the parseable dates of every
\* feature file, and no row has a date that stands for a bad one.
C18_BadDateRowsDropped ==
    /\ (pc = "averaged" /\ averaged # <<>>) =>
          Dates(averaged[1]) = UNION {ParseableDays(exFiles[e]) : e \in DOMAIN exFiles}
    /\ (pc = "combined" /\ combined # <<>>) =>
          /\ \A f \in DOMAIN features :
                ~HeaderIsComment(features[f])
                    => ParseableDays(features[f]) \subseteq Dates(combined[1])
          /\ Dates(combined[1]) \cap {NaT, BadDate} = {}

(* ------------------------------- C19 ----------------------------------- *)
\* the cells of the averaged table that no exchange file has a value for
Unobserved ==
    {<<i, col>> \in Indices(averaged[1].rows) \X ColSet(averaged[1]) :
        Observers(exFiles, averaged[1].rows[i].Date, col) = {}}

\* C19: a cell of the averaged table for which no exchange has a value is
\* missing, never 0: the count of zero writes NaN, and a value that did not
\* convert to a number is missing and adds to no sum.
C19_NoObserverIsMissing ==
    pc = "averaged" =>
        \A x \in Unobserved :
            /\ isna(averaged[1].rows[x[1]].c[x[2]])
            /\ averaged[1].rows[x[1]].c[x[2]] # Num(0)

\* a row of the averaged table with one column observed and one column
\* that no exchange has a value for on that date
C19_Witness ==
    /\ pc = "averaged"
    /\ \E x \in Unobserved :
          \E col \in ColSet(averaged[1]) :
              /\ <<x[1], col>> \notin Unobserved
              /\ ~isna(averaged[1].rows[x[1]].c[col])

(* ------------------------------- C20 ----------------------------------- *)
\* feature file f was joined onto the date axis of the merged table
Joined(f) ==
    /\ ~ReadRaises(features[f])
    /\ ColumnsOf(f) # {}
    /\ ColumnsOf(f) \subseteq ColSet(merged[1])

\* C20: duplicates are resolved before alignment: a feature file that
\* create_combined_dataset joined onto the date axis has at most one row
\* per date at the moment of the join.
C20_DedupBeforeAlign ==
    (pc = "combined" /\ merged # <<>>) =>
        \A f \in DOMAIN features :
            Joined(f) => ~HasDuplicates(DateSeq(FeatureFrame(f, features[f])))

(* ------------------------------- C21 ----------------------------------- *)
\* C21: when no exchange file yields data, the averaging step reports it
\* and the run skips the downstream steps: no later step of the run reads
\* the averaged file or writes a table.
C21_EmptySkipsDownstream ==
    [][pc = "nodata" => (pc' = "nodata" /\ UNCHANGED <<merged, combined, runs>>)]_vars

(* ------------------------------- C22 ----------------------------------- *)
\* the names create_combined_dataset gives to the columns of the inputs
NamedColumns ==
    {"AVG " \o standard_columns[k] : k \in Indices(standard_columns)}
        \cup UNION {ColumnsOf(f) : f \in DOMAIN features}

\* C22: every column of the combined table is named after its namespace
\* and metric, BTC/USD and Gold/BTC Ratio of currency_metrics.csv bare, and
\* no two columns of the table have the same name.
C22_DistinctColumnNames ==
    (pc = "combined" /\ combined # <<>>) =>
        /\ ColSet(combined[1]) \subseteq NamedColumns
        /\ ~HasDuplicates(combined[1].cols)

(* ------------------------------- C23 ----------------------------------- *)
\* C23: lines beginning with '#' at the start of a feature file are skipped
\* by the loader: a file that reads without error once those lines are
\* taken away has its columns in the merged table and its dates on the axis.
C23_CommentLinesSkipped ==
    (pc = "combined" /\ merged # <<>>) =>
        \A f \in DOMAIN features :
            ("comments" \in DOMAIN features[f] /\ ~ReadRaises(features[f])) =>
                /\ ColumnsOf(f) \subseteq ColSet(merged[1])
                /\ ParseableDays(features[f]) \subseteq Dates(merged[1])

(* ------------------------------- C24 ----------------------------------- *)
\* C24: the pipeline stops at the first failing step: once
\* create_combined_dataset has failed (no averaged file, or an error caught
\* by its main), no later step runs and the pipeline returns a result
\* other than 0.
C24_StopsAtFirstFailure ==
    [][pc = "failed" =>
          /\ pc' \in {"failed", "returned"}
          /\ filtered' = filtered
          /\ pc' = "returned" => (result' # <<>> /\ result' # <<0>>)]_vars

(* ------------------------------- C25 ----------------------------------- *)
\* every file validate_all_files checked passed
AllFilesValid ==
    \A f \in DOMAIN validation_results[1] : validation_results[1][f]

\* C25: run_pipeline reports 'All files valid' and 'Success', and starts
\* the rename of the validated files, only when every file that was
\* checked passed validation.
C25_RenameOnlyWhenAllValid ==
    /\ (summary # <<>> /\ summary[1].validation = "All files valid") => AllFilesValid
    /\ (summary # <<>> /\ summary[1].overall = "Success") => AllFilesValid
    /\ (validation_results # <<>> /\ pc \in {"rn_main", "rn_rename", "rn_crashed", "rn_done"})
          => AllFilesValid

(* ------------------------------- C26 ----------------------------------- *)
\* C26: without --no-backup and --dry-run, an original file that the rename
\* removes or replaces has been copied to the backup directory before, with
\* the content it had.
C26_BackupBeforeRemove ==
    [][(~args.skip_backup /\ ~args.dry_run) =>
          \A f \in DOMAIN dataDir :
              (~IsValidated(f) /\ (f \notin DOMAIN dataDir' \/ dataDir'[f] # dataDir[f])) =>
                  /\ backupDir # <<>>
                  /\ f \in DOMAIN backupDir[1]
                  /\ backupDir[1][f] = dataDir[f]]_vars

(* ------------------------------- C27 ----------------------------------- *)
\* C27: with --dry-run no step of the script changes the file system: the
\* data directory stays as it is and no backup directory is created.
C27_DryRunChangesNothing ==
    [][args.dry_run => (dataDir' = dataDir /\ backupDir = <<>> /\ backupDir' = <<>>)]_vars

\* a dry run that has ended on a directory where a validated file and its
\* original are both present
C27_Witness ==
    /\ pc = "rn_done"
    /\ args.dry_run
    /\ ~args.skip_backup
    /\ {"a.csv", "a_validated.csv"} \subseteq DOMAIN dataDir
    /\ dataDir["a.csv"] # dataDir["a_validated.csv"]

(* ------------------------------- C29 ----------------------------------- *)
\* C29: when the rename has ended, the original of every validated file it
\* processed is there: a rename that fails does not leave the original
\* path without a file.
C29_OriginalNeverMissing ==
    [][(pc = "rn_rename" /\ ~args.dry_run) =>
          \A f \in DOMAIN dataDir : ~IsValidated(f) => f \in DOMAIN dataDir']_vars

(* ------------------------------- C28 ----------------------------------- *)
\* the counts of the retry loop: no more downloads than max_retries, one
\* sleep of 2 ** attempt seconds between two attempts and none after the
\* last; None only after max_retries turns; a frame returned has a row and
\* the required columns
RetryLoopBounded ==
    /\ downloads <= max_retries
    /\ downloads = attempt
    /\ Len(waits) < max_retries
    /\ \A k \in DOMAIN waits : waits[k] = Power2(k)
    /\ returned = <<>> => Len(waits) = downloads
    /\ returned # <<>> => Len(waits) = downloads - 1
    /\ returned = <<None>> => downloads = max_retries
    /\ (returned # <<>> /\ returned # <<None>>) =>
          /\ returned[1].rows # <<>>
          /\ ({"Date"} \cup required_columns) \subseteq returned[1].cols

\* C28: get_exchange_data downloads at most max_retries times, sleeps
\* 2 ** attempt seconds only between attempts, returns None when every
\* attempt failed, returns only a frame with rows and the required columns,
\* and always comes to its end.
C28_RetryTerminates == [](RetryLoopBounded) /\ <>(pc = "fetched")

\* every attempt failed: three downloads, sleeps of 2 and 4 seconds
C28_Witness ==
    /\ pc = "fetched"
    /\ returned = <<None>>
    /\ downloads = max_retries
    /\ waits = <<2, 4>>

(* ------------------------------- C30 ----------------------------------- *)
\* C30: check_and_fix_missing_values writes the fixed content over a file
\* only after the content the file had was copied to a backup; when the
\* copy fails the file is left as it was.
C30_BackupBeforeOverwrite ==
    [][\A e \in DOMAIN exFiles :
          (e \in DOMAIN exFiles' /\ exFiles'[e] # exFiles[e]) => exFiles[e] \in backups']_vars

====
